---- MODULE Spec2Model ----
(***************************************************************************)
(* NanoHatOLED: the page/input state machine of the daemon (package main)  *)
(* with its single lock, and the packed pixel buffer of the display        *)
(* driver (package nanohatoled).                                           *)
(*                                                                         *)
(* Spec     the running daemon: main (logo, state init, heartbeat loop,    *)
(*          doShutdown) and the three button goroutines of watchButtons.   *)
(* PixSpec  setPixel applied to bounded inputs on the 128x64 buffer.       *)
(* FaultSpec the daemon on a bus whose writes can fail.                    *)
(* OledSpec a driver session: Open, New, Clear, Image, Pixel, Send and     *)
(*          SetFontSize in any order.                                      *)
(* DrawSpec Pixel, LineH, LineV and Rect on a fresh canvas.                *)
(* InstSpec processes of the daemon started against one pid file.          *)
(* YearSpec getYearProgressText at sampled instants of a year.             *)
(***************************************************************************)
EXTENDS Integers, Sequences, FiniteSets, TLC

(* ---- program constants ---- *)
pageSleep == 10
panelW == 128
panelH == 64
baseAntiAliasThresh == 90
sizeThresholdSmall == 12
sizeThresholdLarge == 24
defaultFontSize == 14
maxFontSize == 32

(* ---- bounds of the model ---- *)
MaxNow == 1
MaxPixCalls == 2
MaxDrawCalls == 1
NumProcs == 3
YearSlack == 3
MaxPresses == 5

Buttons == {"K1", "K2", "K3"}
Tasks == Buttons \cup {"main"}

VARIABLES
    pc,              \* position of each task
    pageMutex,       \* "free" or the task holding sync.Mutex pageMutex
    pageIndex, pageSleepCount, drawing, shutdownFlag, shutdownSelect,
    lastPageIndex, lastTimeStr, lastShutdownSel, staticDrawn,
    now,             \* wall clock, in seconds
    canvas,          \* abstract content of oled.image
    frame,           \* abstract content of the PixelBuffer (as last flushed)
    busOut,          \* number of dev.Write calls issued by the last step
    buf,             \* the PixelBuffer: the set of <<byte index, bit>> that are 1
    pxCalls,         \* number of setPixel calls made (PixSpec)
    pxLast,          \* the last setPixel call: arguments, outcome, bit before
    pxPrev,          \* the setPixel call before the last one
    busFlaky,        \* whether writes to the I2C device can fail
    sendFailed,      \* whether the last oled.Send() returned an error
    oledSt,          \* the driver session: "closed", "open", "failed", "panicked"
    initLog,         \* outcomes of the bus writes init issued, in order
    rotation, rotationState, image, fontSize,
    oledOp,          \* the driver method called last
    drawCall,        \* the drawing primitive called last, with its arguments
    drawCalls,       \* number of drawing primitives called (DrawSpec)
    inst,            \* each process of the daemon: position and arguments
    flock,           \* the processes holding the lock on the pid file
    pidFile,         \* the pid file: whether it exists, the pid in it
    yearNow,         \* length of the year and seconds elapsed in it
    yearText,        \* the bar and the percentage getYearProgressText returned
    presses          \* the button presses handled so far, in order (KeySpec)

pageVars == <<pageIndex, pageSleepCount, drawing, shutdownFlag, shutdownSelect,
              lastPageIndex, lastTimeStr, lastShutdownSel, staticDrawn>>
dispVars == <<canvas, frame>>
pixVars == <<buf, pxCalls, pxLast, pxPrev>>
pxLog == <<pxCalls, pxLast, pxPrev>>
oledVars == <<oledSt, initLog, rotation, rotationState, image, fontSize, oledOp>>
drawVars == <<drawCall, drawCalls>>
instVars == <<inst, flock, pidFile>>
yearVars == <<yearNow, yearText>>
keyVars == <<presses>>
\* what the daemon's steps never touch
libVars == <<pixVars, busFlaky, oledVars, drawVars, instVars, yearVars, keyVars>>
\* what the steps of the driver, of the instances and of the year text never touch
daemonVars == <<pc, pageMutex, pageVars, now, dispVars, busOut, sendFailed, busFlaky, keyVars>>
vars == <<pc, pageMutex, pageVars, now, dispVars, busOut, sendFailed, libVars>>

(* ---- display contents, abstractly ---- *)
NoTime == << >>
Content(kind, sel, time) == [kind |-> kind, sel |-> sel, time |-> time]
Blank == Content("blank", -1, NoTime)
NoImage == Content("nil", -1, NoTime)

\* time.Format("15:04:05")
FormatTime(t) == <<(t \div 3600) % 24, (t \div 60) % 60, t % 60>>

(* ---- the PixelBuffer ---- *)
\* buf := make([]byte, 128*(64/8)+1); buf[0] = 0x40
BufLen == panelW * (panelH \div 8) + 1
OpenBuf == {<<0, 6>>}

\* Go's integer division truncates toward zero; y & 7 is y mod 8 in two's complement
GoDiv(a, d) == IF a >= 0 THEN a \div d ELSE 0 - ((0 - a) \div d)
\* an index that forgets the framing byte
PixIndexNoPrefix(x, y) == x + GoDiv(y, 8) * panelW
PixIndex(x, y) == 1 + x + GoDiv(y, 8) * panelW
PixBit(y) == y % 8

\* the bit of the buffer that holds pixel (x, y)
BitAt(b, x, y) == IF <<PixIndex(x, y), PixBit(y)>> \in b THEN 1 ELSE 0

\* if x >= nanoOled.w || y >= nanoOled.h { return error }
PixOutOfScreen(x, y) == x >= panelW \/ y >= panelH

\* a setPixel whose v == 0 branch leaves the bit alone
setPixelNoClear(b, x, y, v) ==
    IF PixOutOfScreen(x, y) THEN [err |-> "bounds", buf |-> b]
    ELSE IF v > 1 THEN [err |-> "value", buf |-> b]
    ELSE IF PixIndex(x, y) < 0 \/ PixIndex(x, y) >= BufLen
         THEN [err |-> "panic", buf |-> b]
    ELSE IF v = 0
         THEN [err |-> "nil", buf |-> b]
         ELSE [err |-> "nil", buf |-> b \cup {<<PixIndex(x, y), PixBit(y)>>}]

\* setPixel: the error it returns ("nil" for none, "panic" for an index out of
\* range) and the buffer it leaves
setPixel(b, x, y, v) ==
    IF PixOutOfScreen(x, y) THEN [err |-> "bounds", buf |-> b]
    ELSE IF v > 1 THEN [err |-> "value", buf |-> b]
    ELSE IF PixIndex(x, y) < 0 \/ PixIndex(x, y) >= BufLen
         THEN [err |-> "panic", buf |-> b]
    ELSE IF v = 0
         THEN [err |-> "nil", buf |-> b \ {<<PixIndex(x, y), PixBit(y)>>}]
         ELSE [err |-> "nil", buf |-> b \cup {<<PixIndex(x, y), PixBit(y)>>}]

(* ---- the lock ---- *)
\* a task that does not wait for the lock
AcquireNoWait(t) == TRUE
\* pageMutex.Lock() returns once no task holds the lock
Acquire(t) == pageMutex = "free"

Running == pc["main"] # "exited"
RetPc(t) == IF t = "main" THEN "tick" ELSE "wait"

NoCall == [x |-> 0, y |-> 0, v |-> 0, err |-> "nocall", before |-> 0]

(* ---- the driver: canvas, rotation, threshold ---- *)
\* image.NewNRGBA(image.Rect(0, 0, w, h)): black; px is the set of white pixels,
\* rots the number of times Send has rotated this canvas
NewNRGBA(w, h) == [w |-> w, h |-> h, rots |-> 0, px |-> {}]
\* the image field before New, Clear or Image has set it
NilImage == NewNRGBA(0, 0)
\* the canvas New and Clear allocate for a rotation
CanvasFor(r) == IF r = 90 \/ r = 270 THEN NewNRGBA(panelH, panelW) ELSE NewNRGBA(panelW, panelH)

\* (*NRGBA).Set ignores a point outside the image
InImage(img, p) == p[1] >= 0 /\ p[1] < img.w /\ p[2] >= 0 /\ p[2] < img.h
ImageSet(img, pts, white) ==
    [img EXCEPT !.px = IF white THEN @ \cup {p \in pts : InImage(img, p)} ELSE @ \ pts]

\* imaging.Rotate90 / Rotate180 / Rotate270 (counter-clockwise)
Rotate90(img) ==
    [w |-> img.h, h |-> img.w, rots |-> img.rots + 1,
     px |-> {<<p[2], img.w - 1 - p[1]>> : p \in img.px}]
Rotate180(img) ==
    [w |-> img.w, h |-> img.h, rots |-> img.rots + 1,
     px |-> {<<img.w - 1 - p[1], img.h - 1 - p[2]>> : p \in img.px}]
Rotate270(img) ==
    [w |-> img.h, h |-> img.w, rots |-> img.rots + 1,
     px |-> {<<img.h - 1 - p[2], p[1]>> : p \in img.px}]

\* the switch of Send: the image it goes on with, and the flag
SendRotates(r, done) == ~done /\ r \in {90, 180, 270}
SendImage(img, r, done) ==
    IF ~SendRotates(r, done) THEN img
    ELSE IF r = 90 THEN Rotate90(img)
    ELSE IF r = 180 THEN Rotate180(img)
    ELSE Rotate270(img)

Uint16(n) == n % 65536
\* a threshold whose first case compares with < instead of <=
getDynamicThresholdStrict(size) ==
    Uint16(Uint16(IF size < sizeThresholdSmall THEN baseAntiAliasThresh - 10
                  ELSE IF size >= sizeThresholdLarge THEN baseAntiAliasThresh + 10
                  ELSE baseAntiAliasThresh) * 256)
\* var thresh uint16; switch on fontSize; return thresh * 256
getDynamicThreshold(size) ==
    Uint16(Uint16(IF size <= sizeThresholdSmall THEN baseAntiAliasThresh - 10
                  ELSE IF size >= sizeThresholdLarge THEN baseAntiAliasThresh + 10
                  ELSE baseAntiAliasThresh) * 256)

\* a gray on the 8-bit scale
GrayAt8Bit(img, p) == IF p \in img.px THEN 255 ELSE 0
\* (r + g + b) / 3 of a white and of a black pixel
GrayAt(img, p) == IF p \in img.px THEN 65535 ELSE 0

\* the loops of Send: setPixel(i, j, v) for i < endX, j < endY
SendEnd(len, limit) == IF len >= limit THEN limit ELSE len
Covered(c, endX, endY) ==
    /\ c[1] >= 1
    /\ (c[1] - 1) % panelW < endX
    /\ ((c[1] - 1) \div panelW) * 8 + c[2] < endY
Flush(b, img, size) ==
    LET endX == SendEnd(img.w, panelW)
        endY == SendEnd(img.h, panelH)
        lit == {p \in img.px : p[1] < endX /\ p[2] < endY
                                /\ GrayAt(img, p) > getDynamicThreshold(size)}
    IN {c \in b : ~Covered(c, endX, endY)}
           \cup {<<PixIndex(p[1], p[2]), PixBit(p[2])>> : p \in lit}

\* a loop that zeroes from index 0
ZeroDataAll(b) == {c \in b : c[1] < 0}
\* for i := 1; i < len(buf); i++ { buf[i] = 0 }
ZeroData(b) == {c \in b : c[1] < 1}

\* size > 32 is stored as 32
ClampFontSize(size) == IF size > maxFontSize THEN maxFontSize ELSE size

\* init with h = 64: the writes it issues and whether it returns an error; the
\* error of the second write is overwritten by the result of the third
initWrites(ok1, ok2, ok3) == IF ok1 THEN <<ok1, ok2, ok3>> ELSE <<ok1>>
initFails(ok1, ok2, ok3) == IF ok1 THEN ~ok3 ELSE TRUE

(* ---- the drawing primitives: the points each hands to image.Set ---- *)
OnPanel(x, y) == x >= 0 /\ x < panelW /\ y >= 0 /\ y < panelH
PixelPts(x, y) == IF OnPanel(x, y) THEN {<<x, y>>} ELSE {}
LineHPts(x, y, length) ==
    LET x0 == IF x < 0 THEN 0 ELSE x
        endX == IF x0 + length >= panelW THEN panelW - 1 ELSE x0 + length
    IN IF y < 0 \/ y >= panelH THEN {} ELSE {<<px, y>> : px \in x0..endX}
LineVPts(x, y, length) ==
    LET y0 == IF y < 0 THEN 0 ELSE y
        endY == IF y0 + length >= panelH THEN panelH - 1 ELSE y0 + length
    IN IF x < 0 \/ x >= panelW THEN {} ELSE {<<x, py>> : py \in y0..endY}
RectPts(MinX, MinY, MaxX, MaxY) ==
    LET x0 == IF MinX < 0 THEN 0 ELSE MinX
        y0 == IF MinY < 0 THEN 0 ELSE MinY
        x1 == IF MaxX >= panelW THEN panelW - 1 ELSE MaxX
        y1 == IF MaxY >= panelH THEN panelH - 1 ELSE MaxY
    IN IF x0 > x1 \/ y0 > y1 THEN {} ELSE (x0..x1) \X (y0..y1)

NoDraw == [op |-> "none", a |-> 0, b |-> 0, c |-> 0, d |-> 0, white |-> FALSE]

(* ---- the year progress ---- *)
CommonYear == 365 * 86400
LeapYear == 366 * 86400
\* a bar that rounds to the nearest cell
BarLenRounded(e, total) ==
    LET n == (e * 10 + total \div 2) \div total
    IN IF n < 0 THEN 0 ELSE IF n > 10 THEN 10 ELSE n
\* percent := float64(now-start) / float64(end-start) * 100; barLen := int(percent / 10),
\* clamped to 0..10
BarLen(e, total) ==
    LET n == (e * 10) \div total
    IN IF n < 0 THEN 0 ELSE IF n > 10 THEN 10 ELSE n
\* "%.1f" of percent, in tenths of a percent
PercentTenths(e, total) == (20 * e + total \div 100) \div (2 * (total \div 100))
YearProgress(e, total) == [barLen |-> BarLen(e, total), tenths |-> PercentTenths(e, total)]

(* ---- the processes of the daemon ---- *)
Procs == 1..NumProcs
NotStarted == [pc |-> "none", args |-> "none"]
NoPidFile == [exists |-> FALSE, pid |-> 0]

(* ---- the parts of the state a specification does not exercise ---- *)
PixIdle == pxCalls = 0 /\ pxLast = NoCall /\ pxPrev = NoCall
OledIdle ==
    /\ oledSt = "closed"
    /\ initLog = << >>
    /\ rotation = 0
    /\ rotationState = FALSE
    /\ image = NilImage
    /\ fontSize = 0
    /\ oledOp = "none"
DrawIdle == drawCall = NoDraw /\ drawCalls = 0
InstIdle ==
    /\ inst = [p \in Procs |-> NotStarted]
    /\ flock = {}
    /\ pidFile = NoPidFile
YearIdle ==
    /\ yearNow = [total |-> CommonYear, elapsed |-> 0]
    /\ yearText = YearProgress(0, CommonYear)

KeyIdle == presses = << >>

PageInit ==
    /\ pc = [t \in Tasks |-> IF t = "main" THEN "logo" ELSE "off"]
    /\ pageMutex = "free"
    /\ pageIndex = 0
    /\ pageSleepCount = 0
    /\ drawing = FALSE
    /\ shutdownFlag = FALSE
    /\ shutdownSelect = 1
    /\ lastPageIndex = 0
    /\ lastTimeStr = NoTime
    /\ lastShutdownSel = 0
    /\ staticDrawn = FALSE
    /\ now = 0
    /\ canvas = NoImage
    /\ frame = Blank
    /\ busOut = 0
    /\ sendFailed = FALSE

\* the daemon not started, on a bus that does not fail
DaemonIdle == PageInit /\ busFlaky = FALSE

Init ==
    /\ PageInit
    /\ busFlaky = FALSE
    /\ buf = OpenBuf
    /\ PixIdle
    /\ KeyIdle
    /\ OledIdle
    /\ DrawIdle
    /\ InstIdle
    /\ YearIdle

(* ---- the I2C bus ---- *)
\* dev.Write returns an error or nil; oled.Send() returns the error of its writes
SendOutcomes == IF busFlaky THEN {TRUE, FALSE} ELSE {FALSE}

(* ---- main: logo, state init, watchButtons ---- *)
MainLogoDraw ==
    /\ pc["main"] = "logo"
    /\ Acquire("main")
    /\ pageMutex' = "main"
    /\ \E k \in {"logo", "nologo", "logoerr"} : canvas' = Content(k, -1, NoTime)
    /\ frame' = Blank
    /\ busOut' = 4
    /\ pc' = [pc EXCEPT !["main"] = "logo_send"]
    /\ UNCHANGED <<pageVars, now, sendFailed, libVars>>

MainLogoSend ==
    /\ pc["main"] = "logo_send"
    /\ frame' = canvas
    /\ busOut' = 2
    /\ pageMutex' = "free"
    /\ pc' = [pc EXCEPT !["main"] = "init"]
    /\ sendFailed' \in SendOutcomes
    /\ UNCHANGED <<pageVars, now, canvas, libVars>>

MainInit ==
    /\ pc["main"] = "init"
    /\ Acquire("main")
    /\ pageIndex' = 0
    /\ pageSleepCount' = pageSleep
    /\ drawing' = FALSE
    /\ shutdownFlag' = FALSE
    /\ lastPageIndex' = -1
    /\ lastTimeStr' = NoTime
    /\ lastShutdownSel' = -1
    /\ staticDrawn' = FALSE
    /\ busOut' = 0
    /\ pc' = [pc EXCEPT !["main"] = "spawn"]
    /\ UNCHANGED <<pageMutex, shutdownSelect, now, dispVars, sendFailed, libVars>>

WatchButtons ==
    /\ pc["main"] = "spawn"
    /\ pc' = [t \in Tasks |-> IF t = "main" THEN "tick" ELSE "wait"]
    /\ busOut' = 0
    /\ UNCHANGED <<pageMutex, pageVars, now, dispVars, sendFailed, libVars>>

(* ---- the heartbeat loop of main ---- *)
\* a heartbeat that does not look at the flag
HeartbeatTickNoShutdown ==
    /\ pc["main"] = "tick"
    /\ Acquire("main")
    /\ pc' = [pc EXCEPT !["main"] = "dp"]
    /\ busOut' = 0
    /\ UNCHANGED <<pageMutex, pageVars, now, dispVars, sendFailed, libVars>>

HeartbeatTick ==
    /\ pc["main"] = "tick"
    /\ Acquire("main")
    /\ pc' = [pc EXCEPT !["main"] = IF shutdownFlag THEN "sd" ELSE "dp"]
    /\ busOut' = 0
    /\ UNCHANGED <<pageMutex, pageVars, now, dispVars, sendFailed, libVars>>

AdvanceTime ==
    /\ Running
    /\ now < MaxNow
    /\ now' = now + 1
    /\ busOut' = 0
    /\ UNCHANGED <<pc, pageMutex, pageVars, dispVars, sendFailed, libVars>>

(* ---- doShutdown ---- *)
DoShutdownDraw ==
    /\ pc["main"] = "sd"
    /\ Acquire("main")
    /\ pageMutex' = "main"
    /\ canvas' = Content("bye", -1, NoTime)
    /\ frame' = Blank
    /\ busOut' = 4
    /\ pc' = [pc EXCEPT !["main"] = "sd_send"]
    /\ UNCHANGED <<pageVars, now, sendFailed, libVars>>

DoShutdownSend ==
    /\ pc["main"] = "sd_send"
    /\ frame' = canvas
    /\ busOut' = 2
    /\ pc' = [pc EXCEPT !["main"] = "sd_clear"]
    /\ sendFailed' \in SendOutcomes
    /\ UNCHANGED <<pageMutex, pageVars, now, canvas, libVars>>

DoShutdownClear ==
    /\ pc["main"] = "sd_clear"
    /\ canvas' = Blank
    /\ frame' = Blank
    /\ busOut' = 4
    /\ pc' = [pc EXCEPT !["main"] = "exited"]
    /\ sendFailed' \in SendOutcomes
    /\ UNCHANGED <<pageMutex, pageVars, now, libVars>>

(* ---- the button goroutines: watchBtn ---- *)
\* WaitForEdge(-1) returned true (a false return only sleeps and loops)
Edge(b) ==
    /\ Running
    /\ pc[b] = "wait"
    /\ pc' = [pc EXCEPT ![b] = "rs"]
    /\ busOut' = 0
    /\ UNCHANGED <<pageMutex, pageVars, now, dispVars, sendFailed, libVars>>

\* a resetSleepCount that leaves staticDrawn as it is
ResetSleepCountKeepsStatic(b) ==
    /\ Running
    /\ pc[b] = "rs"
    /\ Acquire(b)
    /\ pageSleepCount' = pageSleep
    /\ pc' = [pc EXCEPT ![b] = "h"]
    /\ busOut' = 0
    /\ UNCHANGED <<pageMutex, pageIndex, drawing, shutdownFlag, shutdownSelect, staticDrawn,
                   lastPageIndex, lastTimeStr, lastShutdownSel, now, dispVars, sendFailed, libVars>>

ResetSleepCount(b) ==
    /\ Running
    /\ pc[b] = "rs"
    /\ Acquire(b)
    /\ pageSleepCount' = pageSleep
    /\ staticDrawn' = FALSE
    /\ pc' = [pc EXCEPT ![b] = "h"]
    /\ busOut' = 0
    /\ UNCHANGED <<pageMutex, pageIndex, drawing, shutdownFlag, shutdownSelect,
                   lastPageIndex, lastTimeStr, lastShutdownSel, now, dispVars, sendFailed, libVars>>

K1Index == IF pageIndex = 3 THEN pageIndex ELSE 0
\* a K1 that toggles the selection on every page
K1SelectAlways == (shutdownSelect + 1) % 2
K1Select == IF pageIndex = 3 THEN (shutdownSelect + 1) % 2 ELSE shutdownSelect

HandleK1 ==
    /\ Running
    /\ pc["K1"] = "h"
    /\ Acquire("K1")
    /\ pageIndex' = K1Index
    /\ shutdownSelect' = K1Select
    /\ pc' = [pc EXCEPT !["K1"] = "dp"]
    /\ busOut' = 0
    /\ UNCHANGED <<pageMutex, pageSleepCount, drawing, shutdownFlag,
                   lastPageIndex, lastTimeStr, lastShutdownSel, staticDrawn,
                   now, dispVars, sendFailed, libVars>>

\* a K2 that steps to the next page number
K2IndexNextPage ==
    IF pageIndex = 3 THEN (IF shutdownSelect = 0 THEN pageIndex ELSE 0) ELSE pageIndex + 1
K2Index == IF pageIndex = 3 THEN (IF shutdownSelect = 0 THEN pageIndex ELSE 0) ELSE 1
\* a K2 that raises the flag whatever is selected
K2FlagAnySelect == IF pageIndex = 3 THEN TRUE ELSE shutdownFlag
K2Flag == IF pageIndex = 3 /\ shutdownSelect = 0 THEN TRUE ELSE shutdownFlag

HandleK2 ==
    /\ Running
    /\ pc["K2"] = "h"
    /\ Acquire("K2")
    /\ pageIndex' = K2Index
    /\ shutdownFlag' = K2Flag
    /\ pc' = [pc EXCEPT !["K2"] = "dp"]
    /\ busOut' = 0
    /\ UNCHANGED <<pageMutex, pageSleepCount, drawing, shutdownSelect,
                   lastPageIndex, lastTimeStr, lastShutdownSel, staticDrawn,
                   now, dispVars, sendFailed, libVars>>

K3Index == IF pageIndex = 3 THEN 0 ELSE 3
\* a K3 that keeps the selection it finds
K3SelectKept == shutdownSelect
\* a K3 that enters the confirmation page with Yes selected
K3SelectYes == IF pageIndex = 3 THEN shutdownSelect ELSE 0
K3Select == IF pageIndex = 3 THEN shutdownSelect ELSE 1

HandleK3 ==
    /\ Running
    /\ pc["K3"] = "h"
    /\ Acquire("K3")
    /\ pageIndex' = K3Index
    /\ shutdownSelect' = K3Select
    /\ pc' = [pc EXCEPT !["K3"] = "dp"]
    /\ busOut' = 0
    /\ UNCHANGED <<pageMutex, pageSleepCount, drawing, shutdownFlag,
                   lastPageIndex, lastTimeStr, lastShutdownSel, staticDrawn,
                   now, dispVars, sendFailed, libVars>>

(* ---- drawPage ---- *)
\* a guard that forgets the shutdown flag
DrawGuardNoShutdown == drawing
DrawGuard == drawing \/ shutdownFlag

\* a clear that forgets to pin the countdown
SleepPinForgotten == pageSleepCount
\* pageSleepCount = -1
SleepPin == 0 - 1

\* if drawing || shutdownFlag { return }
DrawPageSkip(t) ==
    /\ Running
    /\ pc[t] = "dp"
    /\ Acquire(t)
    /\ DrawGuard
    /\ pc' = [pc EXCEPT ![t] = RetPc(t)]
    /\ busOut' = 0
    /\ UNCHANGED <<pageMutex, pageVars, now, dispVars, sendFailed, libVars>>

\* pageSleepCount < 0: return
DrawPageAsleep(t) ==
    /\ Running
    /\ pc[t] = "dp"
    /\ Acquire(t)
    /\ ~DrawGuard
    /\ pageSleepCount < 0
    /\ pc' = [pc EXCEPT ![t] = RetPc(t)]
    /\ busOut' = 0
    /\ UNCHANGED <<pageMutex, pageVars, now, dispVars, sendFailed, libVars>>

\* pageSleepCount == 0: oled.Clear()
DrawPageSleepClear(t) ==
    /\ Running
    /\ pc[t] = "dp"
    /\ Acquire(t)
    /\ ~DrawGuard
    /\ pageSleepCount = 0
    /\ pageMutex' = t
    /\ canvas' = Blank
    /\ frame' = Blank
    /\ busOut' = 2
    /\ pc' = [pc EXCEPT ![t] = "dp_sleep_send"]
    /\ UNCHANGED <<pageVars, now, sendFailed, libVars>>

\* ... oled.Send(), staticDrawn = false, lastPageIndex = -1, pageSleepCount = -1
DrawPageSleepSend(t) ==
    /\ Running
    /\ pc[t] = "dp_sleep_send"
    /\ frame' = canvas
    /\ busOut' = 2
    /\ staticDrawn' = FALSE
    /\ lastPageIndex' = -1
    /\ pageSleepCount' = SleepPin
    /\ pageMutex' = "free"
    /\ pc' = [pc EXCEPT ![t] = RetPc(t)]
    /\ sendFailed' \in SendOutcomes
    /\ UNCHANGED <<pageIndex, drawing, shutdownFlag, shutdownSelect,
                   lastTimeStr, lastShutdownSel, now, canvas, libVars>>

\* pageSleepCount--; drawing = true
DrawPageEnter(t) ==
    /\ Running
    /\ pc[t] = "dp"
    /\ Acquire(t)
    /\ ~DrawGuard
    /\ pageSleepCount > 0
    /\ pageMutex' = t
    /\ pageSleepCount' = pageSleepCount - 1
    /\ drawing' = TRUE
    /\ busOut' = 0
    /\ pc' = [pc EXCEPT ![t] = "dp_body"]
    /\ UNCHANGED <<pageIndex, shutdownFlag, shutdownSelect, lastPageIndex,
                   lastTimeStr, lastShutdownSel, staticDrawn, now, dispVars, sendFailed, libVars>>

\* a return that leaves the flag set
DrawPageReturnKeepsFlag(t) ==
    /\ drawing' = drawing
    /\ pageMutex' = "free"
    /\ pc' = [pc EXCEPT ![t] = RetPc(t)]

\* a return that forgets the Unlock
DrawPageReturnKeepsLock(t) ==
    /\ drawing' = FALSE
    /\ pageMutex' = pageMutex
    /\ pc' = [pc EXCEPT ![t] = RetPc(t)]

\* the deferred drawing = false and pageMutex.Unlock()
DrawPageReturn(t) ==
    /\ drawing' = FALSE
    /\ pageMutex' = "free"
    /\ pc' = [pc EXCEPT ![t] = RetPc(t)]

\* a test that looks at staticDrawn only
NeedStaticFlagOnly == ~staticDrawn
NeedStatic == ~staticDrawn \/ lastPageIndex # 0
\* a test that looks at the page only
NeedNonTimePageOnly == pageIndex # lastPageIndex
NeedNonTime == pageIndex # lastPageIndex \/ (pageIndex = 3 /\ shutdownSelect # lastShutdownSel)

\* case 0, static: oled.Clear(), oled.New(0), the three Text calls
DrawTimePageStatic(t) ==
    /\ Running
    /\ pc[t] = "dp_body"
    /\ pageIndex = 0
    /\ NeedStatic
    /\ canvas' = Content("clock", -1, FormatTime(now))
    /\ frame' = Blank
    /\ busOut' = 4
    /\ pc' = [pc EXCEPT ![t] = "dp_static_send"]
    /\ UNCHANGED <<pageMutex, pageVars, now, sendFailed, libVars>>

\* ... oled.Send(), lastTimeStr = currentTime, staticDrawn = true, lastPageIndex = 0
DrawTimePageStaticSend(t) ==
    /\ Running
    /\ pc[t] = "dp_static_send"
    /\ frame' = canvas
    /\ busOut' = 2
    /\ lastTimeStr' = canvas.time
    /\ staticDrawn' = TRUE
    /\ lastPageIndex' = 0
    /\ DrawPageReturn(t)
    /\ sendFailed' \in SendOutcomes
    /\ UNCHANGED <<pageIndex, pageSleepCount, shutdownFlag, shutdownSelect,
                   lastShutdownSel, now, canvas, libVars>>

\* case 0, updateTimeOnly with currentTime == lastTimeStr
UpdateTimeSame(t) ==
    /\ Running
    /\ pc[t] = "dp_body"
    /\ pageIndex = 0
    /\ ~NeedStatic
    /\ FormatTime(now) = lastTimeStr
    /\ busOut' = 0
    /\ DrawPageReturn(t)
    /\ UNCHANGED <<pageIndex, pageSleepCount, shutdownFlag, shutdownSelect,
                   lastPageIndex, lastTimeStr, lastShutdownSel, staticDrawn,
                   now, dispVars, sendFailed, libVars>>

\* case 0, updateTimeOnly: clearTimeArea(), oled.Text(currentTime)
UpdateTimeOnly(t) ==
    /\ Running
    /\ pc[t] = "dp_body"
    /\ pageIndex = 0
    /\ ~NeedStatic
    /\ FormatTime(now) # lastTimeStr
    /\ canvas' = [canvas EXCEPT !.time = FormatTime(now)]
    /\ busOut' = 0
    /\ pc' = [pc EXCEPT ![t] = "dp_time_send"]
    /\ UNCHANGED <<pageMutex, pageVars, now, frame, sendFailed, libVars>>

\* ... oled.Send(), lastTimeStr = currentTime
UpdateTimeOnlySend(t) ==
    /\ Running
    /\ pc[t] = "dp_time_send"
    /\ frame' = canvas
    /\ busOut' = 2
    /\ lastTimeStr' = canvas.time
    /\ DrawPageReturn(t)
    /\ sendFailed' \in SendOutcomes
    /\ UNCHANGED <<pageIndex, pageSleepCount, shutdownFlag, shutdownSelect,
                   lastPageIndex, lastShutdownSel, staticDrawn, now, canvas, libVars>>

\* case 1, 3 with a change: drawNonTimePage up to oled.Send()
DrawNonTimePage(t) ==
    /\ Running
    /\ pc[t] = "dp_body"
    /\ pageIndex \in {1, 3}
    /\ NeedNonTime
    /\ canvas' = IF pageIndex = 1 THEN Content("sysinfo", -1, NoTime)
                                  ELSE Content("confirm", shutdownSelect, NoTime)
    /\ frame' = Blank
    /\ busOut' = 4
    /\ pc' = [pc EXCEPT ![t] = "dp_nontime_send"]
    /\ UNCHANGED <<pageMutex, pageVars, now, sendFailed, libVars>>

\* a repaint that does not record the selection it painted
DrawNonTimePageSendNoSel(t) ==
    /\ Running
    /\ pc[t] = "dp_nontime_send"
    /\ frame' = canvas
    /\ busOut' = 2
    /\ lastPageIndex' = pageIndex
    /\ lastShutdownSel' = lastShutdownSel
    /\ DrawPageReturn(t)
    /\ sendFailed' \in SendOutcomes
    /\ UNCHANGED <<pageIndex, pageSleepCount, shutdownFlag, shutdownSelect,
                   lastTimeStr, staticDrawn, now, canvas, libVars>>

\* ... oled.Send(), lastPageIndex = pageIndex, lastShutdownSel = shutdownSelect
DrawNonTimePageSend(t) ==
    /\ Running
    /\ pc[t] = "dp_nontime_send"
    /\ frame' = canvas
    /\ busOut' = 2
    /\ lastPageIndex' = pageIndex
    /\ lastShutdownSel' = shutdownSelect
    /\ DrawPageReturn(t)
    /\ sendFailed' \in SendOutcomes
    /\ UNCHANGED <<pageIndex, pageSleepCount, shutdownFlag, shutdownSelect,
                   lastTimeStr, staticDrawn, now, canvas, libVars>>

\* case 1, 3 without a change (and any other pageIndex): nothing is drawn
DrawNothing(t) ==
    /\ Running
    /\ pc[t] = "dp_body"
    /\ pageIndex # 0
    /\ ~(pageIndex \in {1, 3} /\ NeedNonTime)
    /\ busOut' = 0
    /\ DrawPageReturn(t)
    /\ UNCHANGED <<pageIndex, pageSleepCount, shutdownFlag, shutdownSelect,
                   lastPageIndex, lastTimeStr, lastShutdownSel, staticDrawn,
                   now, dispVars, sendFailed, libVars>>

DrawPage(t) ==
    \/ DrawPageSkip(t)
    \/ DrawPageAsleep(t)
    \/ DrawPageSleepClear(t)
    \/ DrawPageSleepSend(t)
    \/ DrawPageEnter(t)
    \/ DrawTimePageStatic(t)
    \/ DrawTimePageStaticSend(t)
    \/ UpdateTimeSame(t)
    \/ UpdateTimeOnly(t)
    \/ UpdateTimeOnlySend(t)
    \/ DrawNonTimePage(t)
    \/ DrawNonTimePageSend(t)
    \/ DrawNothing(t)

(* ---- setPixel on bounded inputs ---- *)
PixXs == {-1, 0, panelW - 1, panelW}
PixYs == {-8, -1, 0, 8, panelH - 1, panelH}
PixVs == {0, 1, 2}
\* two prior contents: as Open leaves it, and with every tried in-panel pixel lit
LitBuf == OpenBuf \cup {<<PixIndex(x, y), PixBit(y)>> :
                           x \in {0, panelW - 1}, y \in {0, 8, panelH - 1}}

PixInit ==
    /\ DaemonIdle
    /\ buf \in {OpenBuf, LitBuf}
    /\ PixIdle
    /\ KeyIdle
    /\ OledIdle
    /\ DrawIdle
    /\ InstIdle
    /\ YearIdle

SetPixelCall(x, y, v) ==
    /\ pxCalls < MaxPixCalls
    /\ pxLast.err # "panic"
    /\ buf' = setPixel(buf, x, y, v).buf
    /\ pxLast' = [x |-> x, y |-> y, v |-> v, err |-> setPixel(buf, x, y, v).err,
                  before |-> BitAt(buf, x, y)]
    /\ pxPrev' = pxLast
    /\ pxCalls' = pxCalls + 1
    /\ UNCHANGED <<daemonVars, oledVars, drawVars, instVars, yearVars>>

PixNext == \E x \in PixXs, y \in PixYs, v \in PixVs : SetPixelCall(x, y, v)

PixSpec == PixInit /\ [][PixNext]_vars

Next ==
    \/ MainLogoDraw
    \/ MainLogoSend
    \/ MainInit
    \/ WatchButtons
    \/ HeartbeatTick
    \/ AdvanceTime
    \/ DoShutdownDraw
    \/ DoShutdownSend
    \/ DoShutdownClear
    \/ \E b \in Buttons : Edge(b) \/ ResetSleepCount(b)
    \/ HandleK1
    \/ HandleK2
    \/ HandleK3
    \/ \E t \in Tasks : DrawPage(t)

Spec == Init /\ [][Next]_vars

(* ---- the daemon under a fair scheduler ---- *)
\* the steps of main: the heartbeat loop, its drawPage, doShutdown
MainStep ==
    \/ MainLogoDraw
    \/ MainLogoSend
    \/ MainInit
    \/ WatchButtons
    \/ HeartbeatTick
    \/ DrawPage("main")
    \/ DoShutdownDraw
    \/ DoShutdownSend
    \/ DoShutdownClear
\* the steps of a button goroutine inside a critical section it has entered
HolderStep(b) == pageMutex = b /\ DrawPage(b)

\* the Go scheduler runs every runnable goroutine, and sync.Mutex hands the
\* lock to a waiter that has waited long enough (starvation mode), so main is
\* not passed over forever and a goroutine holding the lock goes on to release it
LiveSpec ==
    /\ Init
    /\ [][Next]_vars
    /\ SF_vars(MainStep)
    /\ \A b \in Buttons : WF_vars(HolderStep(b))

(* ---- the daemon on a bus whose writes can fail ---- *)
FaultInit ==
    /\ PageInit
    /\ busFlaky = TRUE
    /\ buf = OpenBuf
    /\ PixIdle
    /\ KeyIdle
    /\ OledIdle
    /\ DrawIdle
    /\ InstIdle
    /\ YearIdle

FaultSpec == FaultInit /\ [][Next]_vars

(* ---- a driver session (OledSpec) ---- *)
Rotations == {0, 90, 180, 270}
FontSizes == {0, 12, 13, 23, 24, 33}
\* the points Pixel is tried on, the sizes and the grays of a loaded picture
OledPts == {<<0, 0>>, <<100, 10>>}
ImageSizes == {<<panelW, panelH>>, <<panelH, panelH>>}
FileGrays == {0, 24000, 65535}

OledInit ==
    /\ DaemonIdle
    /\ buf = OpenBuf
    /\ PixIdle
    /\ KeyIdle
    /\ OledIdle
    /\ DrawIdle
    /\ InstIdle
    /\ YearIdle

\* Open: preOk is i2c.Open and the two fonts, ok1..ok3 the writes of init,
\* gpioOk the three button pins
Open(preOk, ok1, ok2, ok3, gpioOk) ==
    /\ oledSt = "closed"
    /\ initLog' = IF preOk THEN initWrites(ok1, ok2, ok3) ELSE << >>
    /\ oledSt' = IF preOk /\ ~initFails(ok1, ok2, ok3) /\ gpioOk THEN "open" ELSE "failed"
    /\ buf' = OpenBuf
    /\ fontSize' = defaultFontSize
    /\ oledOp' = "Open"
    /\ UNCHANGED <<rotation, rotationState, image>>
    /\ UNCHANGED <<daemonVars, pxLog, drawVars, instVars, yearVars>>

\* New(r): rotation, rotationState = false, Clear(), a canvas for r
New(r) ==
    /\ oledSt = "open"
    /\ rotation' = r
    /\ rotationState' = FALSE
    /\ image' = CanvasFor(r)
    /\ buf' = ZeroData(buf)
    /\ oledOp' = "New"
    /\ UNCHANGED <<oledSt, initLog, fontSize>>
    /\ UNCHANGED <<daemonVars, pxLog, drawVars, instVars, yearVars>>

\* Clear(): a canvas for the current rotation, buf[1:] zeroed, draw()
Clear ==
    /\ oledSt = "open"
    /\ image' = CanvasFor(rotation)
    /\ buf' = ZeroData(buf)
    /\ oledOp' = "Clear"
    /\ UNCHANGED <<oledSt, initLog, rotation, rotationState, fontSize>>
    /\ UNCHANGED <<daemonVars, pxLog, drawVars, instVars, yearVars>>

\* Image(path): the picture binarized with the threshold replaces the canvas;
\* gray is the gray of its pixel (0, 0), every other pixel being black
Image(ok, size, gray) ==
    /\ oledSt = "open"
    /\ image' = IF ~ok THEN image
                ELSE [NewNRGBA(size[1], size[2]) EXCEPT
                         !.px = IF gray > getDynamicThreshold(fontSize) THEN {<<0, 0>>} ELSE {}]
    /\ oledOp' = "Image"
    /\ UNCHANGED <<oledSt, initLog, rotation, rotationState, fontSize, buf>>
    /\ UNCHANGED <<daemonVars, pxLog, drawVars, instVars, yearVars>>

\* Pixel(x, y, white); image.Set on the nil image panics
OledPixel(p, white) ==
    /\ oledSt = "open"
    /\ oledSt' = IF image = NilImage /\ OnPanel(p[1], p[2]) THEN "panicked" ELSE oledSt
    /\ image' = IF image = NilImage THEN image ELSE ImageSet(image, PixelPts(p[1], p[2]), white)
    /\ oledOp' = "Pixel"
    /\ UNCHANGED <<initLog, rotation, rotationState, fontSize, buf>>
    /\ UNCHANGED <<daemonVars, pxLog, drawVars, instVars, yearVars>>

\* Send(): the rotation switch, the setPixel loops, draw(); image.Bounds() on
\* the nil image panics
Send ==
    /\ oledSt = "open"
    /\ IF image = NilImage
       THEN /\ oledSt' = "panicked"
            /\ UNCHANGED <<image, rotationState, buf>>
       ELSE /\ image' = SendImage(image, rotation, rotationState)
            /\ rotationState' = (rotationState \/ SendRotates(rotation, rotationState))
            /\ buf' = Flush(buf, image', fontSize)
            /\ UNCHANGED oledSt
    /\ oledOp' = "Send"
    /\ UNCHANGED <<initLog, rotation, fontSize>>
    /\ UNCHANGED <<daemonVars, pxLog, drawVars, instVars, yearVars>>

SetFontSize(size) ==
    /\ oledSt = "open"
    /\ fontSize' = ClampFontSize(size)
    /\ oledOp' = "SetFontSize"
    /\ UNCHANGED <<oledSt, initLog, rotation, rotationState, image, buf>>
    /\ UNCHANGED <<daemonVars, pxLog, drawVars, instVars, yearVars>>

OledNext ==
    \/ \E preOk, ok1, ok2, ok3, gpioOk \in BOOLEAN : Open(preOk, ok1, ok2, ok3, gpioOk)
    \/ \E r \in Rotations : New(r)
    \/ Clear
    \/ \E ok \in BOOLEAN, size \in ImageSizes, gray \in FileGrays : Image(ok, size, gray)
    \/ \E p \in OledPts, white \in BOOLEAN : OledPixel(p, white)
    \/ Send
    \/ \E size \in FontSizes : SetFontSize(size)

OledSpec == OledInit /\ [][OledNext]_vars

(* ---- the drawing primitives on a fresh canvas (DrawSpec) ---- *)
DrawXs == {-2, 0, panelH - 2, panelW - 2, panelW + 2}
DrawYs == {-2, 0, panelH - 2, panelH + 2}
DrawLens == {-1, 0, 4}
RectMinXs == {-2, panelW - 2}
RectMaxXs == {1, panelW + 1}
RectMinYs == {-2, panelH - 2}
RectMaxYs == {1, panelH + 1}

\* after Open and New(r)
DrawInit ==
    /\ DaemonIdle
    /\ buf = OpenBuf
    /\ PixIdle
    /\ KeyIdle
    /\ oledSt = "open"
    /\ initLog = <<TRUE, TRUE, TRUE>>
    /\ rotation \in {0, 90}
    /\ rotationState = FALSE
    /\ image = CanvasFor(rotation)
    /\ fontSize = defaultFontSize
    /\ oledOp = "New"
    /\ DrawIdle
    /\ InstIdle
    /\ YearIdle

Drawn(op, a, b, c, d, white, pts) ==
    /\ drawCalls < MaxDrawCalls
    /\ image' = ImageSet(image, pts, white)
    /\ drawCall' = [op |-> op, a |-> a, b |-> b, c |-> c, d |-> d, white |-> white]
    /\ drawCalls' = drawCalls + 1
    /\ UNCHANGED <<oledSt, initLog, rotation, rotationState, fontSize, oledOp>>
    /\ UNCHANGED <<daemonVars, pixVars, instVars, yearVars>>

PixelCall(x, y, white) == Drawn("Pixel", x, y, 0, 0, white, PixelPts(x, y))
LineHCall(x, y, length, white) == Drawn("LineH", x, y, length, 0, white, LineHPts(x, y, length))
LineVCall(x, y, length, white) == Drawn("LineV", x, y, length, 0, white, LineVPts(x, y, length))
RectCall(MinX, MinY, MaxX, MaxY, white) ==
    Drawn("Rect", MinX, MinY, MaxX, MaxY, white, RectPts(MinX, MinY, MaxX, MaxY))

DrawNext ==
    \/ \E x \in DrawXs, y \in DrawYs, white \in BOOLEAN : PixelCall(x, y, white)
    \/ \E x \in DrawXs, y \in DrawYs, l \in DrawLens, white \in BOOLEAN : LineHCall(x, y, l, white)
    \/ \E x \in DrawXs, y \in DrawYs, l \in DrawLens, white \in BOOLEAN : LineVCall(x, y, l, white)
    \/ \E x0 \in RectMinXs, y0 \in RectMinYs, x1 \in RectMaxXs, y1 \in RectMaxYs, white \in BOOLEAN :
           RectCall(x0, y0, x1, y1, white)

DrawSpec == DrawInit /\ [][DrawNext]_vars

(* ---- processes started against one pid file (InstSpec) ---- *)
InstInit ==
    /\ DaemonIdle
    /\ buf = OpenBuf
    /\ PixIdle
    /\ KeyIdle
    /\ OledIdle
    /\ DrawIdle
    /\ InstIdle
    /\ YearIdle

At(p, l) == inst[p].pc = l
Goto(p, l) == inst' = [inst EXCEPT ![p].pc = l]
Alive(p) == inst[p].pc \notin {"none", "refused", "exited"}
InstFrozen == UNCHANGED <<daemonVars, pixVars, oledVars, drawVars, yearVars>>

\* the program is started: without arguments, or with one that is not -stop
StartInstance(p, args) ==
    /\ At(p, "none")
    /\ inst' = [inst EXCEPT ![p] = [pc |-> "check", args |-> args]]
    /\ UNCHANGED <<flock, pidFile>>
    /\ InstFrozen

\* os.OpenFile(pidFilePath, O_CREATE|O_RDWR)
OpenPidFile(p) ==
    /\ At(p, "check")
    /\ pidFile' = [pidFile EXCEPT !.exists = TRUE]
    /\ Goto(p, "opened")
    /\ UNCHANGED flock
    /\ InstFrozen

\* unix.Flock(LOCK_EX|LOCK_NB): taken, or "instance already running" and Fatalf
FlockPidFile(p) ==
    /\ At(p, "opened")
    /\ IF flock = {}
       THEN flock' = {p} /\ Goto(p, "locked")
       ELSE flock' = flock /\ Goto(p, "refused")
    /\ UNCHANGED pidFile
    /\ InstFrozen

\* ioutil.WriteFile(pidFilePath, pid)
WritePid(p) ==
    /\ At(p, "locked")
    /\ pidFile' = [exists |-> TRUE, pid |-> p]
    /\ Goto(p, "wrote")
    /\ UNCHANGED flock
    /\ InstFrozen

\* return nil; the deferred pidFile.Close() gives the lock up
CheckReturns(p) ==
    /\ At(p, "wrote")
    /\ flock' = flock \ {p}
    /\ Goto(p, "passed")
    /\ UNCHANGED pidFile
    /\ InstFrozen

\* daemonize: ForkExec of the program with --daemon, the parent exits
Daemonize(p, c) ==
    /\ At(p, "passed")
    /\ inst[p].args = "plain"
    /\ c # p
    /\ At(c, "none")
    /\ inst' = [inst EXCEPT ![p].pc = "exited", ![c] = [pc |-> "check", args |-> "daemon"]]
    /\ UNCHANGED <<flock, pidFile>>
    /\ InstFrozen

\* daemonize: ForkExec fails, Fatalf
ForkFails(p) ==
    /\ At(p, "passed")
    /\ inst[p].args = "plain"
    /\ Goto(p, "exited")
    /\ UNCHANGED <<flock, pidFile>>
    /\ InstFrozen

\* started with an argument: Open, logo, state init, the main loop
EnterMain(p) ==
    /\ At(p, "passed")
    /\ inst[p].args = "daemon"
    /\ Goto(p, "running")
    /\ UNCHANGED <<flock, pidFile>>
    /\ InstFrozen

\* doShutdown: os.Remove(pidFilePath), exit
InstShutdown(p) ==
    /\ At(p, "running")
    /\ pidFile' = NoPidFile
    /\ Goto(p, "exited")
    /\ UNCHANGED flock
    /\ InstFrozen

\* the program run with -stop: the process named in the pid file, if alive, is
\* killed, and the pid file removed
StopCommand ==
    /\ pidFile.exists
    /\ inst' = [p \in Procs |->
                   IF p = pidFile.pid /\ Alive(p) THEN [inst[p] EXCEPT !.pc = "exited"]
                   ELSE inst[p]]
    /\ flock' = flock \ {pidFile.pid}
    /\ pidFile' = NoPidFile
    /\ InstFrozen

InstNext ==
    \/ \E p \in Procs, args \in {"plain", "daemon"} : StartInstance(p, args)
    \/ \E p \in Procs : OpenPidFile(p)
    \/ \E p \in Procs : FlockPidFile(p)
    \/ \E p \in Procs : WritePid(p)
    \/ \E p \in Procs : CheckReturns(p)
    \/ \E p \in Procs, c \in Procs : Daemonize(p, c)
    \/ \E p \in Procs : ForkFails(p)
    \/ \E p \in Procs : EnterMain(p)
    \/ \E p \in Procs : InstShutdown(p)
    \/ StopCommand

InstSpec == InstInit /\ [][InstNext]_vars

(* ---- getYearProgressText at sampled instants (YearSpec) ---- *)
YearLengths == {CommonYear, LeapYear}
\* the seconds within YearSlack of each tenth of the year
YearSamples(total) ==
    {e \in {k * (total \div 10) + d : k \in 0..10, d \in (0 - YearSlack)..YearSlack} :
        e >= 0 /\ e < total}

YearInit ==
    /\ DaemonIdle
    /\ buf = OpenBuf
    /\ PixIdle
    /\ KeyIdle
    /\ OledIdle
    /\ DrawIdle
    /\ InstIdle
    /\ yearNow \in {[total |-> t, elapsed |-> 0] : t \in YearLengths}
    /\ yearText = YearProgress(0, yearNow.total)

\* getYearProgressText called e seconds after the start of the year
GetYearProgressText(e) ==
    /\ e > yearNow.elapsed
    /\ yearNow' = [yearNow EXCEPT !.elapsed = e]
    /\ yearText' = YearProgress(e, yearNow.total)
    /\ UNCHANGED <<daemonVars, pixVars, oledVars, drawVars, instVars>>

YearNext == \E e \in YearSamples(yearNow.total) : GetYearProgressText(e)

YearSpec == YearInit /\ [][YearNext]_vars

(* ---- the button handlers alone, one press after another (KeySpec) ---- *)
\* the state main leaves when it starts the button goroutines
KeyInit ==
    /\ pc = [t \in Tasks |-> IF t = "main" THEN "tick" ELSE "wait"]
    /\ pageMutex = "free"
    /\ pageIndex = 0
    /\ pageSleepCount = pageSleep
    /\ drawing = FALSE
    /\ shutdownFlag = FALSE
    /\ shutdownSelect = 1
    /\ lastPageIndex = -1
    /\ lastTimeStr = NoTime
    /\ lastShutdownSel = -1
    /\ staticDrawn = FALSE
    /\ now = 0
    /\ canvas = NoImage
    /\ frame = Blank
    /\ busOut = 0
    /\ sendFailed = FALSE
    /\ busFlaky = FALSE
    /\ buf = OpenBuf
    /\ PixIdle
    /\ OledIdle
    /\ DrawIdle
    /\ InstIdle
    /\ YearIdle
    /\ presses = << >>

\* what a handler did: the key, the page before and after, whether it raised the flag
Pressed(k) ==
    [key |-> k, from |-> pageIndex, to |-> pageIndex', raised |-> ~shutdownFlag /\ shutdownFlag']

\* what the handlers leave alone
KeyFrame ==
    UNCHANGED <<pc, pageMutex, drawing, lastPageIndex, lastTimeStr, lastShutdownSel, now,
                dispVars, busOut, sendFailed, busFlaky, pixVars, oledVars, drawVars,
                instVars, yearVars>>

\* handleK1(): resetSleepCount(), then the locked body
PressK1 ==
    /\ Len(presses) < MaxPresses
    /\ pageSleepCount' = pageSleep
    /\ staticDrawn' = FALSE
    /\ pageIndex' = K1Index
    /\ shutdownSelect' = K1Select
    /\ shutdownFlag' = shutdownFlag
    /\ presses' = Append(presses, Pressed("K1"))
    /\ KeyFrame

\* handleK2()
PressK2 ==
    /\ Len(presses) < MaxPresses
    /\ pageSleepCount' = pageSleep
    /\ staticDrawn' = FALSE
    /\ pageIndex' = K2Index
    /\ shutdownFlag' = K2Flag
    /\ shutdownSelect' = shutdownSelect
    /\ presses' = Append(presses, Pressed("K2"))
    /\ KeyFrame

\* handleK3()
PressK3 ==
    /\ Len(presses) < MaxPresses
    /\ pageSleepCount' = pageSleep
    /\ staticDrawn' = FALSE
    /\ pageIndex' = K3Index
    /\ shutdownSelect' = K3Select
    /\ shutdownFlag' = shutdownFlag
    /\ presses' = Append(presses, Pressed("K3"))
    /\ KeyFrame

KeyNext == PressK1 \/ PressK2 \/ PressK3

KeySpec == KeyInit /\ [][KeyNext]_vars

(***************************************************************************)
(* Properties                                                              *)
(***************************************************************************)
\* a step in which task t leaves label l
Leaves(t, l) == pc[t] = l /\ pc'[t] # l
\* the step that is the locked body of handleK1 / handleK2 / handleK3
K1Step == Leaves("K1", "h")
K2Step == Leaves("K2", "h")
K3Step == Leaves("K3", "h")

\* C1: once the shutdown flag is raised, no step changes pageIndex or
\* shutdownSelect.
C1_NoChangeAfterShutdown ==
    [][shutdownFlag => pageIndex' = pageIndex /\ shutdownSelect' = shutdownSelect]_vars

\* C2: between the locked mutation of a button's handler and that button's own
\* drawPage, no other button runs resetSleepCount or its handler body and the
\* heartbeat runs no drawPage.
OtherActs(b) ==
    \/ \E o \in Buttons \ {b} : Leaves(o, "rs") \/ Leaves(o, "h")
    \/ Leaves("main", "dp")
C2_HandlerDrawAtomic ==
    [][\A b \in Buttons : pc[b] = "dp" => ~OtherActs(b)]_vars

\* C3: at most one task is in the middle of a draw operation (canvas
\* primitives done, flush pending, or between two flushes).
DrawLabels == {"logo_send", "sd_send", "sd_clear", "dp_sleep_send",
               "dp_static_send", "dp_time_send", "dp_nontime_send"}
Drawers == {t \in Tasks : pc[t] \in DrawLabels}
C3_OneDrawer == Cardinality(Drawers) <= 1
\* a task is mid-draw while another one is about to draw
C3_Witness ==
    \E t \in Tasks : \E u \in Tasks \ {t} : pc[t] \in DrawLabels /\ pc[u] \in {"dp", "sd"}

\* C4: K2 in ShutdownConfirm with Yes selected raises the flag and keeps the
\* page; with No selected it goes to Clock and leaves the flag as it was; from
\* Clock or SystemInfo it goes to SystemInfo.
C4_K2Press ==
    [][K2Step =>
        /\ (pageIndex = 3 /\ shutdownSelect = 0 =>
                shutdownFlag' /\ pageIndex' = pageIndex)
        /\ (pageIndex = 3 /\ shutdownSelect = 1 =>
                pageIndex' = 0 /\ shutdownFlag' = shutdownFlag)
        /\ (pageIndex \in {0, 1} => pageIndex' = 1)]_vars
\* K2 has just raised the flag on ShutdownConfirm
C4_Witness ==
    pc["K2"] = "dp" /\ shutdownFlag /\ pageIndex = 3 /\ shutdownSelect = 0

\* C5: K1 in ShutdownConfirm toggles shutdownSelect and keeps the page; on any
\* other page it goes to Clock and keeps shutdownSelect; it never changes the
\* shutdown flag.
C5_K1Press ==
    [][K1Step =>
        /\ (pageIndex = 3 =>
                shutdownSelect' = 1 - shutdownSelect /\ pageIndex' = pageIndex)
        /\ (pageIndex # 3 =>
                pageIndex' = 0 /\ shutdownSelect' = shutdownSelect)
        /\ shutdownFlag' = shutdownFlag]_vars
\* K1 has just moved the selection to Yes
C5_Witness ==
    pc["K1"] = "dp" /\ pageIndex = 3 /\ shutdownSelect = 0 /\ lastShutdownSel = 1

\* C6: K3 in ShutdownConfirm goes to Clock; on any other page it goes to
\* ShutdownConfirm with shutdownSelect = 1; no step enters ShutdownConfirm
\* with Yes selected.
C6_K3Press ==
    [][/\ (K3Step =>
            /\ (pageIndex = 3 => pageIndex' = 0)
            /\ (pageIndex # 3 => pageIndex' = 3 /\ shutdownSelect' = 1))
       /\ (pageIndex # 3 /\ pageIndex' = 3 => shutdownSelect' = 1)]_vars
\* K3 has just re-entered ShutdownConfirm after Yes had been shown
C6_Witness ==
    pc["K3"] = "dp" /\ pageIndex = 3 /\ shutdownSelect = 1 /\ lastShutdownSel = 0

\* C7: a drawPage call made while drawing or shutdownFlag is set returns at
\* once: no Page State field, no canvas or PixelBuffer content changes and no
\* bus write is issued.
C7_DrawPageNoop ==
    [][\A t \in Tasks :
        Leaves(t, "dp") /\ (drawing \/ shutdownFlag) =>
            /\ UNCHANGED <<pageVars, dispVars>>
            /\ busOut' = 0
            /\ pc'[t] = RetPc(t)]_vars
\* K2 raised the flag and its own drawPage call has returned
C7_Witness ==
    shutdownFlag /\ pc["K2"] = "wait" /\ pc["main"] \in {"tick", "sd"}

\* C8: a clear starts only at countdown zero and ends with the buffer blank and
\* the countdown at -1; a drawPage call at -1 changes nothing and writes
\* nothing; only resetSleepCount takes the countdown off -1.
C8_SleepClearOnce ==
    [][/\ \A t \in Tasks :
            /\ (pc[t] # "dp_sleep_send" /\ pc'[t] = "dp_sleep_send" =>
                    pageSleepCount = 0)
            /\ (Leaves(t, "dp_sleep_send") =>
                    pageSleepCount' = -1 /\ frame' = Blank)
            /\ (Leaves(t, "dp") /\ pageSleepCount = -1 =>
                    UNCHANGED <<pageVars, dispVars>> /\ busOut' = 0)
       /\ (pageSleepCount = -1 /\ pageSleepCount' # -1 =>
               /\ \E b \in Buttons : Leaves(b, "rs")
               /\ pageSleepCount' = pageSleep)]_vars
\* the screen was cleared and the heartbeat is about to call drawPage again
C8_Witness ==
    pageSleepCount = -1 /\ frame = Blank /\ pc["main"] = "dp" /\ ~shutdownFlag

(* ---- setPixel (PixSpec) ---- *)
InPanel(x, y) == x >= 0 /\ x < panelW /\ y >= 0 /\ y < panelH

\* C9: a setPixel call with (x, y) outside the panel or v not in {0, 1}
\* returns an error and leaves the whole buffer unchanged.
C9_SetPixelRejects ==
    [][pxCalls' # pxCalls /\ (~InPanel(pxLast'.x, pxLast'.y) \/ pxLast'.v \notin {0, 1}) =>
        pxLast'.err \in {"bounds", "value"} /\ buf' = buf]_vars

\* two successful calls in a row on the same in-panel pixel, v then 1 - v
RoundTrip ==
    /\ pxCalls >= 2
    /\ pxPrev.err = "nil" /\ pxLast.err = "nil"
    /\ InPanel(pxPrev.x, pxPrev.y)
    /\ pxLast.x = pxPrev.x /\ pxLast.y = pxPrev.y
    /\ pxLast.v = 1 - pxPrev.v

\* C10 as stated: after setPixel(x,y,v); setPixel(x,y,1-v) the bit of (x, y)
\* is what it was before the first call.
C10_RoundTripRestores ==
    RoundTrip => BitAt(buf, pxLast.x, pxLast.y) = pxPrev.before

\* C10 amended: after setPixel(x,y,v); setPixel(x,y,1-v) the bit of (x, y) is
\* 1 - v, which is the value before the first call exactly when that value
\* differed from v.
C10_RoundTripAmended ==
    RoundTrip =>
        /\ BitAt(buf, pxLast.x, pxLast.y) = 1 - pxPrev.v
        /\ (BitAt(buf, pxLast.x, pxLast.y) = pxPrev.before <=> pxPrev.before # pxPrev.v)
\* a round trip on a lit pixel that cleared it and lit it again
C10_Witness ==
    RoundTrip /\ pxPrev.v = 0 /\ pxPrev.before = 1 /\ BitAt(buf, pxLast.x, pxLast.y) = 1

(* ---- the daemon on a failing bus (FaultSpec) ---- *)
\* C11: a render of SystemInfo or ShutdownConfirm whose Send fails is not
\* recorded as drawn: lastPageIndex and lastShutdownSel keep their values, so
\* that the next heartbeat drawPage renders the page again.
C11_FailedDrawNotRecorded ==
    [][\A t \in Tasks :
        Leaves(t, "dp_nontime_send") /\ sendFailed' =>
            lastPageIndex' = lastPageIndex /\ lastShutdownSel' = lastShutdownSel]_vars

(* ---- the driver session (OledSpec) ---- *)
\* C12: whenever one of the bus writes issued by init fails, Open fails: a
\* session is open only if every write init issued succeeded.
C12_InitSurfacesFailures ==
    oledSt = "open" => \A i \in 1..Len(initLog) : initLog[i]

\* C14: with a rotation of 90, 180 or 270 pending, the canvas a Send has just
\* flushed has been rotated exactly once, whatever sequence of New, Clear,
\* Image, Pixel and Send led to it.
C14_RotatedOncePerCanvas ==
    oledSt = "open" /\ oledOp = "Send" /\ rotation \in {90, 180, 270} => image.rots = 1

\* C16: the threshold is (90-10)*256 for a size <= 12, 90*256 for a size
\* between 12 and 24, (90+10)*256 for a size >= 24, strictly increasing from
\* bucket to bucket and below 2^16, for the stored size and for every size up
\* to the 32 the setter stores at most.
Bucket(s) == IF s <= 12 THEN 1 ELSE IF s < 24 THEN 2 ELSE 3
ExpectedThreshold(s) ==
    IF s <= 12 THEN (90 - 10) * 256 ELSE IF s < 24 THEN 90 * 256 ELSE (90 + 10) * 256
C16_ThresholdBuckets ==
    /\ fontSize <= 32
    /\ getDynamicThreshold(fontSize) = ExpectedThreshold(fontSize)
    /\ \A s \in -1..32 :
          /\ getDynamicThreshold(s) = ExpectedThreshold(s)
          /\ getDynamicThreshold(s) < 65536
          /\ \A t \in -1..32 :
                Bucket(s) < Bucket(t) => getDynamicThreshold(s) < getDynamicThreshold(t)
\* SetFontSize has just stored the largest size of the small bucket
C16_Witness ==
    oledSt = "open" /\ oledOp = "SetFontSize" /\ fontSize = 12
       /\ getDynamicThreshold(fontSize) = 20480

(* ---- the drawing primitives (DrawSpec) ---- *)
Between(v, a, b) == (a <= v /\ v <= b) \/ (b <= v /\ v <= a)
\* whether point p belongs to the shape the call asked for
InShape(call, p) ==
    CASE call.op = "Pixel" -> p = <<call.a, call.b>>
      [] call.op = "LineH" -> p[2] = call.b /\ Between(p[1], call.a, call.a + call.c)
      [] call.op = "LineV" -> p[1] = call.a /\ Between(p[2], call.b, call.b + call.c)
      [] call.op = "Rect" -> /\ call.a <= p[1] /\ p[1] <= call.c
                             /\ call.b <= p[2] /\ p[2] <= call.d
      [] OTHER -> FALSE
Touched == (image'.px \ image.px) \cup (image.px \ image'.px)

\* C20: a call of Pixel, LineH, LineV or Rect, whatever its arguments, does not
\* fail and changes only pixels that belong to the requested shape and to the
\* canvas.
C20_PaintsOnlyShape ==
    [][drawCalls' # drawCalls =>
        /\ oledSt' = "open"
        /\ \A p \in Touched : InShape(drawCall', p) /\ InImage(image, p)]_vars

(* ---- the instances (InstSpec) ---- *)
\* C13: while an instance runs the main loop, the lock attempt of any other
\* start is refused ("instance already running") and the pid file keeps the
\* pid of the running instance; at most one instance runs the main loop.
C13_SingleInstance ==
    [][/\ \A p \in Procs : \A q \in Procs \ {p} :
            At(q, "running") /\ At(p, "opened") /\ inst'[p].pc # "opened" =>
                inst'[p].pc = "refused" /\ pidFile' = pidFile
       /\ \A p \in Procs : \A q \in Procs :
            inst'[p].pc = "running" /\ inst'[q].pc = "running" => p = q]_vars

(* ---- the year progress (YearSpec) ---- *)
\* the bar has floor(percent / 10) cells, within 0..10
BarIsFloor ==
    /\ yearText.barLen \in 0..10
    /\ yearText.barLen * yearNow.total <= 10 * yearNow.elapsed
    /\ 10 * yearNow.elapsed < (yearText.barLen + 1) * yearNow.total
BarAtYearStart ==
    yearNow.elapsed = 0 => yearText.barLen = 0 /\ yearText.tenths = 0

\* C15 as stated: the bar has floor(percent/10) cells clamped to 0..10, 0 cells
\* and 0.0% at the first second of the year, 10 cells at the last second.
C15_BarAtYearEnds ==
    /\ BarIsFloor
    /\ BarAtYearStart
    /\ (yearNow.elapsed = yearNow.total - 1 => yearText.barLen = 10)

\* C15 amended: the bar has floor(percent/10) cells clamped to 0..10, 0 cells
\* and 0.0% at the first second of the year, and 9 cells next to 100.0% at
\* the last second.
C15_BarAtYearEndsAmended ==
    /\ BarIsFloor
    /\ BarAtYearStart
    /\ (yearNow.elapsed = yearNow.total - 1 =>
            yearText.barLen = 9 /\ yearText.tenths = 1000)
\* the text was computed at the last second of a leap year
C15_Witness ==
    yearNow.total = LeapYear /\ yearNow.elapsed = yearNow.total - 1 /\ yearText.barLen = 9

(* ---- presses and repaints (Spec) ---- *)
\* what drawNonTimePage puts on the canvas for the current page
PageContent ==
    IF pageIndex = 1 THEN Content("sysinfo", -1, NoTime)
    ELSE Content("confirm", shutdownSelect, NoTime)

C21_BufferFrame ==
    oledSt = "open" =>
        /\ BufLen = 1025
        /\ \A c \in buf : c[1] \in 0..1024 /\ c[2] \in 0..7
        /\ {c[2] : c \in {d \in buf : d[1] = 0}} = {6}
        /\ (oledOp \in {"New", "Clear"} => {c \in buf : c[1] >= 1} = {})
\* a Clear has just zeroed the data region of a session that drew and flushed
C21_Witness ==
    /\ oledSt = "open"
    /\ oledOp = "Clear"
    /\ rotationState
    /\ buf = {<<0, 6>>}

(* ---- ranges of the page state (Spec) ---- *)
\* C22: once main has initialized the page state, pageIndex is 0, 1 or 3,
\* shutdownSelect is 0 or 1, and the sleep countdown lies in -1..10.
C22_PageStateRanges ==
    pc["main"] \notin {"logo", "logo_send", "init"} =>
        /\ pageIndex \in {0, 1, 3}
        /\ shutdownSelect \in {0, 1}
        /\ pageSleepCount \in -1..10
\* the display went to sleep on ShutdownConfirm with Yes selected
C22_Witness ==
    /\ pc["main"] = "tick"
    /\ pageIndex = 3
    /\ shutdownSelect = 0
    /\ pageSleepCount = -1

(* ---- the frame of setPixel (PixSpec) ---- *)
\* the bit that holds pixel (x, y), for y >= 0
TargetBit(x, y) == <<1 + x + (y \div 8) * 128, y % 8>>

\* C23: a setPixel call with (x, y) in the panel and v in {0, 1} returns no
\* error, leaves bit y mod 8 of byte 1 + x + (y/8)*128 equal to v, and leaves
\* every other bit of the buffer, the framing byte included, as it was.
C23_SetPixelFrame ==
    [][pxCalls' # pxCalls /\ InPanel(pxLast'.x, pxLast'.y) /\ pxLast'.v \in {0, 1} =>
        /\ pxLast'.err = "nil"
        /\ (TargetBit(pxLast'.x, pxLast'.y) \in buf' <=> pxLast'.v = 1)
        /\ buf' \ {TargetBit(pxLast'.x, pxLast'.y)} = buf \ {TargetBit(pxLast'.x, pxLast'.y)}]_vars
\* a lit pixel of the last row was cleared while other pixels stay lit
C23_Witness ==
    /\ pxLast.err = "nil"
    /\ pxLast.y = 63
    /\ pxLast.v = 0
    /\ pxLast.before = 1
    /\ TargetBit(pxLast.x, pxLast.y) \notin buf
    /\ Cardinality(buf) > 2

(* ---- the threshold at flush (OledSpec) ---- *)
\* the pixel a bit of the data region holds
PixelOf(c) == <<(c[1] - 1) % 128, ((c[1] - 1) \div 128) * 8 + c[2]>>
\* the overlap of canvas and panel
InOverlap(img, p) ==
    /\ p[1] >= 0 /\ p[1] < img.w /\ p[1] < 128
    /\ p[2] >= 0 /\ p[2] < img.h /\ p[2] < 64

\* C24: whatever the font size, right after a Send the buffer holds 1 for
\* every white canvas pixel and 0 for every black canvas pixel inside the
\* overlap of canvas and panel.
C24_FlushKeepsBinary ==
    oledSt = "open" /\ oledOp = "Send" =>
        /\ \A p \in image.px : InOverlap(image, p) => TargetBit(p[1], p[2]) \in buf
        /\ \A c \in buf :
              c[1] >= 1 /\ InOverlap(image, PixelOf(c)) => PixelOf(c) \in image.px
\* a loaded 64x64 picture with a white pixel was flushed at a font size of the
\* large bucket
C24_Witness ==
    /\ oledSt = "open"
    /\ oledOp = "Send"
    /\ fontSize = 24
    /\ rotation = 0
    /\ image.w = 64 /\ image.h = 64
    /\ image.px = {<<0, 0>>}
    /\ <<1, 0>> \in buf

(* ---- the shutdown path (LiveSpec) ---- *)
\* doShutdown has started painting
ShutdownBegun == pc["main"] \in {"sd_send", "sd_clear", "exited"}

\* C25: once the shutdown flag is raised, no step paints the canvas, changes
\* the buffer or writes to the bus until doShutdown starts; doShutdown, once
\* started, is not started again; and with the flag raised doShutdown
\* eventually runs to its end.
C25_ShutdownRuns ==
    /\ [][/\ (shutdownFlag /\ ~ShutdownBegun /\ ~Leaves("main", "sd") =>
                UNCHANGED dispVars /\ busOut' = 0)
          /\ (ShutdownBegun => pc'["main"] \in {"sd_send", "sd_clear", "exited"})
          /\ (pc["main"] = "exited" => pc'["main"] = "exited")]_vars
    /\ (shutdownFlag ~> pc["main"] = "exited")
\* the flag is raised, a button goroutine is about to call drawPage and
\* doShutdown has not started
C25_Witness ==
    /\ shutdownFlag
    /\ pc["main"] = "tick"
    /\ \E b \in Buttons : pc[b] = "dp"
    /\ frame.kind = "confirm"

(* ---- the drawing flag and the lock (Spec) ---- *)
\* C26: drawing is false in every state in which the page lock is free; as
\* drawPage tests the flag right after taking the lock, no call finds it set
\* and no step returns at the guard with the shutdown flag down.
C26_DrawingOnlyUnderLock ==
    [][/\ (pageMutex' = "free" => ~drawing')
       /\ \A t \in Tasks : Leaves(t, "dp") => ~drawing /\ pageMutex = "free"
       /\ \A t \in Tasks : Leaves(t, "dp") /\ pc'[t] = RetPc(t) /\ pageSleepCount > 0 =>
                shutdownFlag]_vars
\* a draw is under way and another task is about to call drawPage
C26_Witness ==
    /\ drawing
    /\ \E t \in Tasks : \E u \in Tasks \ {t} :
           pageMutex = t /\ pc[t] = "dp_body" /\ pc[u] = "dp"

(* ---- the page lock (LiveSpec) ---- *)
\* the positions whose next step calls pageMutex.Lock()
LockPoints == {"logo", "init", "tick", "sd", "rs", "h", "dp"}

\* C27: a task that holds the page lock is not at a point where it would lock
\* again, nor waiting for a button edge; and as long as doShutdown has not
\* started, a held lock is eventually released.
C27_NoLockDeadlock ==
    /\ [](\A t \in Tasks : pageMutex = t => pc[t] \notin LockPoints \cup {"off", "wait"})
    /\ ((pageMutex # "free" /\ ~ShutdownBegun) ~> pageMutex = "free")
\* a button goroutine holds the lock while main and another button goroutine
\* are about to lock
C27_Witness ==
    /\ pageMutex \in Buttons
    /\ pc["main"] = "tick"
    /\ \E b \in Buttons \ {pageMutex} : pc[b] \in {"rs", "h"}

(* ---- the confirmation sequence (KeySpec) ---- *)
\* press j entered ShutdownConfirm through K3
EntersConfirm(j) == presses[j].key = "K3" /\ presses[j].from # 3 /\ presses[j].to = 3
\* the K1 presses strictly between presses j and i
K1Between(j, i) == {m \in (j + 1)..(i - 1) : presses[m].key = "K1"}
\* press i is a K2 that follows an entry into ShutdownConfirm, with the page
\* unchanged and an odd number of K1 presses in between
Confirmed(i) ==
    /\ presses[i].key = "K2"
    /\ presses[i].from = 3
    /\ \E j \in 1..(i - 1) :
           /\ EntersConfirm(j)
           /\ \A m \in (j + 1)..(i - 1) : presses[m].from = presses[m].to
           /\ Cardinality(K1Between(j, i)) % 2 = 1

\* C28: every press that raises the shutdown flag is a K2 press preceded by a
\* K3 press that entered ShutdownConfirm and, since that entry and with no page
\* change, by an odd number of K1 presses.
C28_ShutdownNeedsConfirmation ==
    \A i \in 1..Len(presses) : presses[i].raised => Confirmed(i)
\* the flag was raised after K3, three K1 presses and K2
C28_Witness ==
    /\ shutdownFlag
    /\ Len(presses) = 5
    /\ presses[5].raised
    /\ Cardinality(K1Between(1, 5)) = 3

(* ---- the bookkeeping at the end of drawPage ---- *)
\* the positions of drawPage after the shutdown and sleep checks
PastChecks == {"dp_body", "dp_static_send", "dp_time_send", "dp_nontime_send"}
\* a step in which task t returns from a drawPage that passed the checks
ReturnsAwake(t) == pc[t] \in PastChecks /\ pc'[t] = RetPc(t)

\* C29: when a drawPage call that passed the shutdown and sleep checks returns,
\* lastPageIndex equals pageIndex and, on ShutdownConfirm, lastShutdownSel
\* equals shutdownSelect.
C29_BookkeepingMatches ==
    [][\A t \in Tasks : ReturnsAwake(t) =>
           /\ lastPageIndex' = pageIndex'
           /\ pageIndex' = 3 => lastShutdownSel' = shutdownSelect']_vars
\* drawPage has returned with the Yes selection of ShutdownConfirm recorded,
\* after an earlier paint of the No selection
C29_Witness ==
    /\ pageMutex = "free"
    /\ ~drawing
    /\ pageIndex = 3
    /\ lastPageIndex = 3
    /\ shutdownSelect = 0
    /\ lastShutdownSel = 0
    /\ pageSleepCount < pageSleep
====
